---- MODULE Spec2Model ----
(***************************************************************************)
(* Model of route_planner/services/routing.py (OptimalFuelRouter) and of   *)
(* the view that calls it (route_planner/views.py).                        *)
(*                                                                         *)
(* Two specifications share the module:                                    *)
(*   PlannerSpec  find_optimal_fuel_stops on one router whose route is     *)
(*                already fetched, for every route and station list of     *)
(*                the bounded input space;                                 *)
(*   RouteSpec    get_route, the route cache, the clock and the provider.  *)
(*                                                                         *)
(* Units.  Distances are whole miles.  route_line lives in degrees; the    *)
(* code converts with MILES_PER_DEGREE (69), so the model measures arc     *)
(* length along route_line in units of 1/69 degree ("line miles"): a       *)
(* value d passed to interpolate(d / MILES_PER_DEGREE) is d line miles.    *)
(* route_line.length in line miles (route_length) is an input of its own,  *)
(* independent of total_distance, which is the sum of the lengths the      *)
(* provider reports.  Arithmetic is exact: floating-point rounding is not  *)
(* modelled.  Prices and costs are in cents.                               *)
(***************************************************************************)
EXTENDS Integers, Sequences, FiniteSets, TLC

VARIABLES
    \* ---- find_optimal_fuel_stops: the router's route and the catalog ----
    total_distance,        \* self.total_distance (miles)
    route_length,          \* self.route_line.length in line miles; 0: no/empty route_line
    stations_along_route,  \* _find_stations_along_route(): price-ordered, annotated
    \* ---- find_optimal_fuel_stops: locals and outcome ----
    pc,                    \* "ready" | "loop" | "returned" | "raised"
    current_point,         \* arc position of current_point on route_line
    distance_covered,
    optimal_stops,
    total_refill_cost,
    response,              \* what get_optimal_route answers
    \* ---- get_route ----
    routers,               \* OptimalFuelRouter instances
    cache,                 \* django cache: key -> entry
    now,                   \* clock, seconds
    provider_calls         \* number of requests sent to the provider, per key

plannerVars == <<total_distance, route_length, stations_along_route, pc, current_point,
                 distance_covered, optimal_stops, total_refill_cost, response>>
routeVars == <<routers, cache, now, provider_calls>>
vars == <<plannerVars, routeVars>>

(***************************************************************************)
(* Program constants                                                       *)
(***************************************************************************)
RANGE_IN_MILES == 500
MILES_PER_GALLON == 10
\* SAFETY_MARGIN = 0.9, as the fraction 9/10
SAFETY_MARGIN_NUM == 9
SAFETY_MARGIN_DEN == 10
MAX_TRAVERSIBLE_RANGE == (RANGE_IN_MILES * SAFETY_MARGIN_NUM) \div SAFETY_MARGIN_DEN
CACHE_TIMEOUT == 3600
\* METERS_PER_MILE = 1609.34, as the fraction 160934/100
METERS_PER_MILE_NUM == 160934
METERS_PER_MILE_DEN == 100
\* DEFAULT_FUEL_COST_IN_USD = Decimal("3.50"), in cents
DEFAULT_FUEL_COST_IN_USD == 350

RouteNotFound == "Route not found"
NotEnoughStations == "Not enough fuel stations found along the route"
CouldNotCalculate == "Could not calculate route"

(***************************************************************************)
(* Bounds of the input space                                               *)
(***************************************************************************)
MaxGrid == 20       \* distances are 0, 50, ..., 50 * MaxGrid miles
MaxStations == 2    \* candidate stations along the route
MaxCalls == 2       \* get_route calls on one instance
MaxSections == 2    \* sections of a provider response
MaxTicks == 2       \* the clock advances half an hour at a time

Miles == {50 * k : k \in 0..MaxGrid}
Prices == {300, 350}
\* lengths of route_line, in line miles
RouteLengths == {m \in Miles : m % 250 = 0}

Min(a, b) == IF a <= b THEN a ELSE b
Max(a, b) == IF a >= b THEN a ELSE b

(***************************************************************************)
(* Geometry of route_line (GEOS LineString), a simple line                 *)
(***************************************************************************)
\* route_line.interpolate(d): the point at arc length d, clamped to the line
Interpolate(d) == Max(0, Min(d, route_length))

\* route_line.project(p): arc length of the point of the line closest to p;
\* p is a point of the line, given by its arc position
Project(p) == p

\* x / route_line.length as a fraction <<numerator, denominator>>
Fraction(x) == <<x, route_length>>

FracLess(f, g) == f[1] * g[2] < g[1] * f[2]
FracLeq(f, g) == f[1] * g[2] <= g[1] * f[2]

\* fraction * route_line.length (exact: the denominator is route_length)
TimesLength(f) == (f[1] * route_length) \div f[2]

(***************************************************************************)
(* _find_stations_along_route: stations within the corridor, annotated     *)
(* with station_fraction, ordered by price                                 *)
(***************************************************************************)
\* a FuelStation with its annotation; at = station_fraction * route_line.length
Station(at, price) == [station_fraction |-> Fraction(at), price_per_gallon_in_usd |-> price]

PriceOrdered(s) ==
    \A i \in 1..(Len(s) - 1) : s[i].price_per_gallon_in_usd <= s[i + 1].price_per_gallon_in_usd

SeqsUpTo(S, n) == UNION {[1..k -> S] : k \in 0..n}

StationLists ==
    {s \in SeqsUpTo({Station(at, p) : at \in {m \in Miles : m <= route_length}, p \in Prices},
                    MaxStations) : PriceOrdered(s)}

(***************************************************************************)
(* _calculate_fuel_cost and _find_next_best_fuel_station                   *)
(***************************************************************************)
NoStation == [station_fraction |-> <<0, 0>>, price_per_gallon_in_usd |-> 0]

\* lines 61-64, mutated: the default price is charged, not the station's
_calculate_fuel_cost_default(gallons, price_per_gallon) == gallons * DEFAULT_FUEL_COST_IN_USD

\* lines 61-64: Decimal(str(gallons)) * price_per_gallon
_calculate_fuel_cost(gallons, price_per_gallon) == gallons * price_per_gallon

\* line 176, mutated: the lower end of the window is inclusive
InWindowClosedBelow(current_fraction, station_fraction, target_fraction) ==
    FracLeq(current_fraction, station_fraction) /\ FracLeq(station_fraction, target_fraction)

\* line 176, mutated: the window has no upper end
InWindowNoTarget(current_fraction, station_fraction, target_fraction) ==
    FracLess(current_fraction, station_fraction)

\* line 176: current_fraction < station.station_fraction <= target_fraction
InWindow(current_fraction, station_fraction, target_fraction) ==
    FracLess(current_fraction, station_fraction) /\ FracLeq(station_fraction, target_fraction)

\* lines 175-178, mutated: the loop has no break and keeps the last station of
\* the list inside the window
NextBestStationNoBreak(point, covered, stations) ==
    LET current_fraction == Fraction(Project(point))
        target_fraction == Fraction(Project(Interpolate(covered + MAX_TRAVERSIBLE_RANGE)))
        hits == {i \in 1..Len(stations) :
                    InWindow(current_fraction, stations[i].station_fraction, target_fraction)}
    IN  IF hits = {} THEN NoStation
        ELSE stations[CHOOSE i \in hits : \A j \in hits : i >= j]

\* lines 168-180: the first station of the price-ordered list inside the window
NextBestStation(point, covered, stations) ==
    LET current_fraction == Fraction(Project(point))
        target_distance == covered + MAX_TRAVERSIBLE_RANGE
        target_point == Interpolate(target_distance)
        target_fraction == Fraction(Project(target_point))
        hits == {i \in 1..Len(stations) :
                    InWindow(current_fraction, stations[i].station_fraction, target_fraction)}
    IN  IF hits = {} THEN NoStation
        ELSE stations[CHOOSE i \in hits : \A j \in hits : i <= j]

\* lines 186-193, mutated: the tank is taken to be empty at the station
GallonsToFillEmptyTank(remaining_distance, remaining_distance_from_station) ==
    IF remaining_distance_from_station < RANGE_IN_MILES
    THEN remaining_distance_from_station \div MILES_PER_GALLON
    ELSE RANGE_IN_MILES \div MILES_PER_GALLON

\* lines 186-193
GallonsToFill(remaining_distance, remaining_distance_from_station) ==
    LET remaining_fuel_at_station ==
            (RANGE_IN_MILES - (remaining_distance - remaining_distance_from_station))
                \div MILES_PER_GALLON
    IN  IF remaining_distance_from_station < RANGE_IN_MILES
        THEN (remaining_distance_from_station \div MILES_PER_GALLON) - remaining_fuel_at_station
        ELSE (RANGE_IN_MILES \div MILES_PER_GALLON) - remaining_fuel_at_station

\* lines 182-205: the FuelStop built for the chosen station and the point to move to
FuelStopAt(station, remaining_distance) ==
    LET distance_from_start == TimesLength(station.station_fraction)
        nearby_point_in_route == Interpolate(distance_from_start)
        remaining_distance_from_station == total_distance - distance_from_start
        gallons_to_fill == GallonsToFill(remaining_distance, remaining_distance_from_station)
    IN  [stop |-> [distance_from_start |-> distance_from_start,
                   price |-> station.price_per_gallon_in_usd,
                   gallons_to_fill |-> gallons_to_fill,
                   cost |-> _calculate_fuel_cost(gallons_to_fill,
                                                 station.price_per_gallon_in_usd)],
         point |-> nearby_point_in_route]

(***************************************************************************)
(* find_optimal_fuel_stops, as called by get_optimal_route                 *)
(***************************************************************************)
\* line 221, mutated: the loop never stops short of the destination
WithinReachNever(remaining_distance) == FALSE

\* line 221, mutated: the loop stops within the range of a full tank
WithinReachFullTank(remaining_distance) == remaining_distance <= RANGE_IN_MILES

\* line 221: remaining_distance < MAX_TRAVERSIBLE_RANGE
WithinReach(remaining_distance) == remaining_distance < MAX_TRAVERSIBLE_RANGE

\* views.py 24-38
OkResponse(stops, cost) ==
    [status |-> 200, total_distance |-> total_distance,
     total_refill_cost |-> cost, fuel_stops |-> stops]

\* views.py 21-22
ErrorResponse(message) == [status |-> 400, error |-> message]

NoResponse == [status |-> 0]

\* lines 209-217: the route check and the locals
Enter ==
    /\ pc = "ready"
    /\ IF route_length = 0
       THEN /\ pc' = "raised"
            /\ response' = ErrorResponse(RouteNotFound)
       ELSE /\ pc' = "loop"
            /\ UNCHANGED response
    /\ current_point' = Interpolate(0)
    /\ distance_covered' = 0
    /\ optimal_stops' = <<>>
    /\ total_refill_cost' = 0
    /\ UNCHANGED <<total_distance, route_length, stations_along_route>>
    /\ UNCHANGED routeVars

\* lines 219-222 and 237: the loop ends, the plan is returned
Return ==
    /\ pc = "loop"
    /\ \/ ~(distance_covered < total_distance)
       \/ WithinReach(total_distance - distance_covered)
    /\ pc' = "returned"
    /\ response' = OkResponse(optimal_stops, total_refill_cost)
    /\ UNCHANGED <<total_distance, route_length, stations_along_route, current_point,
                   distance_covered, optimal_stops, total_refill_cost>>
    /\ UNCHANGED routeVars

\* lines 224-228: no station in reach
Raise ==
    /\ pc = "loop"
    /\ distance_covered < total_distance
    /\ ~WithinReach(total_distance - distance_covered)
    /\ NextBestStation(current_point, distance_covered, stations_along_route) = NoStation
    /\ pc' = "raised"
    /\ response' = ErrorResponse(NotEnoughStations)
    /\ UNCHANGED <<total_distance, route_length, stations_along_route, current_point,
                   distance_covered, optimal_stops, total_refill_cost>>
    /\ UNCHANGED routeVars

\* lines 224-235: one more stop
Select ==
    /\ pc = "loop"
    /\ distance_covered < total_distance
    /\ ~WithinReach(total_distance - distance_covered)
    /\ LET station == NextBestStation(current_point, distance_covered, stations_along_route)
           res == FuelStopAt(station, total_distance - distance_covered)
       IN  /\ station # NoStation
           /\ current_point' = res.point
           /\ distance_covered' = res.stop.distance_from_start
           /\ optimal_stops' = Append(optimal_stops, res.stop)
           /\ total_refill_cost' = total_refill_cost + res.stop.cost
    /\ UNCHANGED <<total_distance, route_length, stations_along_route, pc, response>>
    /\ UNCHANGED routeVars

RouteIdle ==
    /\ routers = <<>>
    /\ cache = <<>>
    /\ now = 0
    /\ provider_calls = <<>>

PlannerInit ==
    /\ route_length \in RouteLengths
    /\ total_distance \in IF route_length = 0 THEN {0} ELSE Miles
    /\ stations_along_route \in IF route_length = 0 THEN {<<>>} ELSE StationLists
    /\ pc = "ready"
    /\ current_point = 0
    /\ distance_covered = 0
    /\ optimal_stops = <<>>
    /\ total_refill_cost = 0
    /\ response = NoResponse
    /\ RouteIdle

PlannerNext == Enter \/ Return \/ Raise \/ Select

PlannerSpec == PlannerInit /\ [][PlannerNext]_vars

(***************************************************************************)
(* get_route: the provider, the route cache and the routers                *)
(***************************************************************************)
\* two requests in progress, each with its OptimalFuelRouter
Routers == {1, 2}

\* (origin, destination) of the requests: coordinates as <<lat, lng>>
Trips == {<<<<40, -100>>, <<41, -99>>>>, <<<<40, -100>>, <<42, -99>>>>}

\* line 82: the f-string of the four coordinates
CacheKey(origin, destination) == <<origin[1], origin[2], destination[1], destination[2]>>

CacheKeys == {CacheKey(t[1], t[2]) : t \in Trips}

KeyOf(router) == CacheKey(router.origin, router.destination)

\* flexible polylines a section may carry; "bad" does not decode
Polylines == {"A", "B", "bad"}

\* the polyline of the road the provider routes a trip over
RoadOf(origin, destination) == IF destination = <<41, -99>> THEN "A" ELSE "B"

Decodable(polyline) == polyline # "bad"

\* _decode_polyline: the <<lat, lng>> sequence of a polyline
_decode_polyline(polyline) ==
    IF polyline = "A" THEN <<<<40, -100>>, <<41, -100>>>>
    ELSE <<<<41, -100>>, <<41, -99>>>>

\* a section of the provider's answer: polyline and summary.length in meters
Sections ==
    {[polyline |-> "A", length |-> 160934],
     [polyline |-> "B", length |-> 482802],
     [polyline |-> "bad", length |-> 160934]}

\* the answers to a request: sections of the trip's road, or a section that
\* does not decode; what follows such a section is never read
AnswersOver ==
    [road \in {"A", "B"} |->
        {s \in SeqsUpTo({x \in Sections : x.polyline \in {road, "bad"}}, MaxSections) :
            \A i \in 1..(Len(s) - 1) : Decodable(s[i].polyline)}]

SectionLists(origin, destination) == AnswersOver[RoadOf(origin, destination)]

\* line 111: section["summary"]["length"] / METERS_PER_MILE
ToMiles(length) == (length * METERS_PER_MILE_DEN) \div METERS_PER_MILE_NUM

\* line 125: Point(lng, lat) for lat, lng in coordinates
LineString(coordinates) ==
    [points |-> [i \in 1..Len(coordinates) |-> <<coordinates[i][2], coordinates[i][1]>>]]

None == [none |-> TRUE]

\* lines 113-120
RouteSegment(section_coords, distance, polyline) ==
    [start_point |-> section_coords[1], end_point |-> section_coords[Len(section_coords)],
     distance |-> distance, polyline |-> polyline]

Route(segments, distance, route_line) ==
    [segments |-> segments, distance |-> distance, route_line |-> route_line]

\* lines 105-122: the loop over the sections from section i on; it stops at a
\* polyline that does not decode, with the segments appended so far
RECURSIVE WalkSections(_, _, _, _, _)
WalkSections(sections, i, route_segments, coordinates, current_distance) ==
    IF i > Len(sections)
    THEN [ok |-> TRUE, route_segments |-> route_segments,
          coordinates |-> coordinates, current_distance |-> current_distance]
    ELSE IF ~Decodable(sections[i].polyline)
    THEN [ok |-> FALSE, route_segments |-> route_segments,
          coordinates |-> coordinates, current_distance |-> current_distance]
    ELSE LET section_coords == _decode_polyline(sections[i].polyline)
             distance == ToMiles(sections[i].length)
         IN  WalkSections(sections, i + 1,
                          Append(route_segments,
                                 RouteSegment(section_coords, distance, sections[i].polyline)),
                          coordinates \o section_coords,
                          current_distance + distance)

\* the cache: every key has an entry or NoEntry
NoEntry == [expires |-> -1]

Live(entry, t) == entry # NoEntry /\ t < entry.expires

\* cache.get(cache_key): the stored value, None when absent or expired
CacheGet(c, key, t) == IF Live(c[key], t) THEN c[key].value ELSE None

\* cache.set(cache_key, value, CACHE_TIMEOUT)
CacheSet(c, key, value, t) == [c EXCEPT ![key] = [value |-> value, expires |-> t + CACHE_TIMEOUT]]

\* lines 54-59
NewRouter(origin, destination) ==
    [origin |-> origin, destination |-> destination,
     route_segments |-> <<>>, total_distance |-> 0, route_line |-> None,
     state |-> "idle", calls |-> 0, outcome |-> "none", result |-> "none",
     reply |-> NoResponse]

\* get_route returned or raised; views.py 16-17 for False, an unhandled
\* exception leaves the view as a server error
Ended(router, outcome, result) ==
    [router EXCEPT !.state = "idle", !.outcome = outcome, !.result = result,
                   !.reply = IF result = "False" THEN ErrorResponse(CouldNotCalculate)
                             ELSE IF result = "raised" THEN [status |-> 500]
                             ELSE NoResponse]

\* lines 86-88, mutated: the cached segments are appended to the router's
UseCachedAppending(router, cached_route) ==
    [router EXCEPT !.route_segments = router.route_segments \o cached_route.segments,
                   !.total_distance = cached_route.distance,
                   !.route_line = cached_route.route_line]

\* lines 86-88
UseCached(router, cached_route) ==
    [router EXCEPT !.route_segments = cached_route.segments,
                   !.total_distance = cached_route.distance,
                   !.route_line = cached_route.route_line]

\* lines 83-89: the cache holds the route
GetRouteHit(r) ==
    /\ routers[r].state = "idle"
    /\ routers[r].calls < MaxCalls
    /\ LET cached_route == CacheGet(cache, KeyOf(routers[r]), now)
           called == [routers[r] EXCEPT !.calls = @ + 1]
       IN  /\ cached_route # None
           /\ routers' = [routers EXCEPT ![r] = Ended(UseCached(called, cached_route),
                                                       "hit", "True")]
    /\ UNCHANGED <<cache, now, provider_calls>>
    /\ UNCHANGED plannerVars

\* lines 83-101: the cache does not; the request goes to the provider.  Nothing
\* of the program runs between the lookup that misses and requests.get, so the
\* request counts as sent in the step of the lookup.
GetRouteMiss(r) ==
    /\ routers[r].state = "idle"
    /\ routers[r].calls < MaxCalls
    /\ CacheGet(cache, KeyOf(routers[r]), now) = None
    /\ routers' = [routers EXCEPT ![r].calls = @ + 1, ![r].state = "fetching"]
    /\ provider_calls' = [provider_calls EXCEPT ![KeyOf(routers[r])] = @ + 1]
    /\ UNCHANGED <<cache, now>>
    /\ UNCHANGED plannerVars

\* lines 92-101, 135-137: requests.get raises ConnectionError or Timeout
TransportFailure(r) ==
    /\ routers[r].state = "fetching"
    /\ routers' = [routers EXCEPT ![r] = Ended(@, "transport", "False")]
    /\ UNCHANGED <<cache, now, provider_calls>>
    /\ UNCHANGED plannerVars

\* lines 102, 135-137: raise_for_status raises HTTPError
HttpStatusFailure(r) ==
    /\ routers[r].state = "fetching"
    /\ routers' = [routers EXCEPT ![r] = Ended(@, "http_status", "False")]
    /\ UNCHANGED <<cache, now, provider_calls>>
    /\ UNCHANGED plannerVars

\* line 108: route_data["routes"] is empty; the IndexError is not a
\* RequestException and leaves get_route
NoRoutes(r) ==
    /\ routers[r].state = "fetching"
    /\ routers' = [routers EXCEPT ![r] = Ended(@, "no_routes", "raised")]
    /\ UNCHANGED <<cache, now, provider_calls>>
    /\ UNCHANGED plannerVars

\* lines 127-131, mutated: the route is stored whether or not the loop finished
StoreAlways(c, key, walk, route, t) == CacheSet(c, key, route, t)

\* lines 108-131: cache.set comes after the loop over the sections
Store(c, key, walk, route, t) == IF walk.ok THEN CacheSet(c, key, route, t) ELSE c

\* lines 103-133: a 200 answer with a list of sections
Answer(r, sections) ==
    /\ routers[r].state = "fetching"
    /\ \E walk \in {WalkSections(sections, 1, routers[r].route_segments, <<>>, 0)} :
       LET built == [routers[r] EXCEPT !.route_segments = walk.route_segments,
                                       !.total_distance = walk.current_distance,
                                       !.route_line = LineString(walk.coordinates)]
           partial == [routers[r] EXCEPT !.route_segments = walk.route_segments]
           route == Route(walk.route_segments, walk.current_distance,
                          LineString(walk.coordinates))
       IN  /\ routers' = [routers EXCEPT ![r] =
                            IF ~walk.ok THEN Ended(partial, "bad_polyline", "raised")
                            ELSE IF sections = <<>> THEN Ended(built, "no_sections", "True")
                            ELSE Ended(built, "fetched", "True")]
           /\ cache' = Store(cache, KeyOf(routers[r]), walk, route, now)
    /\ UNCHANGED <<now, provider_calls>>
    /\ UNCHANGED plannerVars

\* the provider answers the request of router r
ProviderAnswers(r) ==
    \E sections \in SectionLists(routers[r].origin, routers[r].destination) :
        Answer(r, sections)

\* half an hour passes
Tick ==
    /\ now < MaxTicks * 1800
    /\ now' = now + 1800
    /\ UNCHANGED <<routers, cache, provider_calls>>
    /\ UNCHANGED plannerVars

PlannerIdle ==
    /\ total_distance = 0
    /\ route_length = 0
    /\ stations_along_route = <<>>
    /\ pc = "ready"
    /\ current_point = 0
    /\ distance_covered = 0
    /\ optimal_stops = <<>>
    /\ total_refill_cost = 0
    /\ response = NoResponse

RouteInit ==
    \* the two requests are for the same trip or for different ones
    /\ routers \in {f \in [Routers -> {NewRouter(t[1], t[2]) : t \in Trips}] :
                        f[1].destination = <<41, -99>>}
    /\ cache = [k \in CacheKeys |-> NoEntry]
    /\ now = 0
    /\ provider_calls = [k \in CacheKeys |-> 0]
    /\ PlannerIdle

RouteNext ==
    \/ \E r \in Routers : GetRouteHit(r)
    \/ \E r \in Routers : GetRouteMiss(r)
    \/ \E r \in Routers : TransportFailure(r)
    \/ \E r \in Routers : HttpStatusFailure(r)
    \/ \E r \in Routers : NoRoutes(r)
    \/ \E r \in Routers : ProviderAnswers(r)
    \/ Tick

RouteSpec == RouteInit /\ [][RouteNext]_vars

(***************************************************************************)
(* Properties of find_optimal_fuel_stops (PlannerSpec)                     *)
(***************************************************************************)
Returned == response.status = 200
Finished == pc \in {"returned", "raised"}

\* distance_from_start of the stops of a plan, preceded by the start
Positions(stops) == <<0>> \o [i \in 1..Len(stops) |-> stops[i].distance_from_start]

Last(s) == s[Len(s)]

\* C1: in every returned plan no leg is longer than MAX_TRAVERSIBLE_RANGE (450
\* miles): start to first stop, stop to next stop, and last stop (or the start,
\* when there is no stop) to the destination.
C1_NoLegBeyondSafeRange ==
    Returned =>
        LET at == Positions(response.fuel_stops)
        IN  /\ \A i \in 1..(Len(at) - 1) : at[i + 1] - at[i] <= MAX_TRAVERSIBLE_RANGE
            /\ total_distance - Last(at) <= MAX_TRAVERSIBLE_RANGE

\* a plan of two stops for a route longer than two safe ranges
C1_Witness ==
    /\ Returned
    /\ Len(response.fuel_stops) = 2
    /\ total_distance > 2 * MAX_TRAVERSIBLE_RANGE

\* C2: every stop of a returned plan has gallons_to_fill >= 0.
C2_GallonsNonNegative ==
    Returned => \A i \in 1..Len(response.fuel_stops) : response.fuel_stops[i].gallons_to_fill >= 0

\* C3: a route of at most MAX_TRAVERSIBLE_RANGE miles (450 included) ends with an
\* empty plan of zero cost and no error, whatever the stations.
C3_ShortRouteNeedsNoStop ==
    (Finished /\ route_length > 0 /\ total_distance <= MAX_TRAVERSIBLE_RANGE) =>
        /\ Returned
        /\ response.fuel_stops = <<>>
        /\ response.total_refill_cost = 0

\* C4: distance_from_start is strictly increasing along the stop sequence, the
\* first one above 0, so no station appears twice: in the sequence the loop is
\* building at every moment, and so in the plan that is returned.
C4_StrictlyIncreasing ==
    /\ LET at == Positions(optimal_stops)
       IN  \A i \in 1..(Len(at) - 1) : at[i] < at[i + 1]
    /\ Returned => response.fuel_stops = optimal_stops

\* a plan whose two stops are 50 miles apart
C4_Witness ==
    /\ Returned
    /\ Len(response.fuel_stops) = 2
    /\ response.fuel_stops[2].distance_from_start
          = response.fuel_stops[1].distance_from_start + 50

\* C5: no stop of a returned plan lies beyond total_distance, although its
\* distance_from_start comes from the path length and total_distance from the
\* provider's segment lengths.
C5_StopWithinTotalDistance ==
    Returned =>
        \A i \in 1..Len(response.fuel_stops) :
            response.fuel_stops[i].distance_from_start <= total_distance

\* a stop exactly at total_distance on a path whose length exceeds total_distance,
\* with a station further along the path
C5_Witness ==
    /\ Returned
    /\ route_length > total_distance
    /\ response.fuel_stops # <<>>
    /\ Last(response.fuel_stops).distance_from_start = total_distance
    /\ \E i \in 1..Len(stations_along_route) :
          TimesLength(stations_along_route[i].station_fraction) > total_distance

\* the scenario of C6: 1000 miles, a station at 200 miles for $3.00 and one at
\* 700 miles for $3.50
Scenario ==
    /\ total_distance = 1000
    /\ route_length = 1000
    /\ stations_along_route = <<Station(200, 300), Station(700, 350)>>

\* C6 as stated: the scenario ends with the two stops 200 and 700.
C6_ScenarioTwoStops ==
    (Scenario /\ Finished) =>
        /\ Returned
        /\ Len(response.fuel_stops) = 2
        /\ response.fuel_stops[1].distance_from_start = 200
        /\ response.fuel_stops[2].distance_from_start = 700

\* C6 amended: in the scenario the first stop is the station at 200 miles with
\* gallons_to_fill = 500/10 - (500 - 200)/10 = 20; the station at 700 miles is
\* beyond 200 + 450, so the second search finds nothing and the planner fails
\* with "Not enough fuel stations found along the route".
C6_ScenarioFailsAfterFirstStop ==
    (Scenario /\ Finished) =>
        /\ pc = "raised"
        /\ response = ErrorResponse(NotEnoughStations)
        /\ Len(optimal_stops) = 1
        /\ optimal_stops[1].distance_from_start = 200
        /\ optimal_stops[1].gallons_to_fill = 20
        /\ optimal_stops[1].cost = 20 * 300

C6_Witness == Scenario /\ Finished /\ distance_covered = 200

\* the stations whose distance from the start lies in (from, from + 450]
Reachable(from) ==
    {i \in 1..Len(stations_along_route) :
        LET at == TimesLength(stations_along_route[i].station_fraction)
        IN  from < at /\ at <= from + MAX_TRAVERSIBLE_RANGE}

\* an iteration of the loop that has to search for a station
Searching ==
    /\ pc = "loop"
    /\ distance_covered < total_distance
    /\ total_distance - distance_covered >= MAX_TRAVERSIBLE_RANGE

\* C7: an iteration, the first or a later one, that finds no station in
\* (position, position + 450] ends the call with the error "Not enough fuel
\* stations found along the route"; the answer carries the error alone, no stop
\* list and no cost.
C7_NoStationFailsWhole ==
    [][(Searching /\ Reachable(distance_covered) = {}) =>
          /\ pc' = "raised"
          /\ response' = ErrorResponse(NotEnoughStations)
          /\ DOMAIN response' = {"status", "error"}]_vars

\* the failure comes after a stop was already selected
C7_Witness ==
    /\ pc = "raised"
    /\ response = ErrorResponse(NotEnoughStations)
    /\ optimal_stops # <<>>
    /\ Reachable(distance_covered) = {}

(***************************************************************************)
(* Properties of get_route (RouteSpec)                                     *)
(***************************************************************************)
\* this step is a call of get_route on router r
Calls(r) == routers[r].state = "idle" /\ routers'[r].calls = routers[r].calls + 1

\* this step ends a call of get_route on router r
Ends(r) == routers[r].state = "fetching" /\ routers'[r].state = "idle"

ProviderFailures == {"transport", "http_status", "no_routes", "no_sections", "bad_polyline"}

\* C9: whatever the provider failure (transport, HTTP status, no routes, no
\* sections, a polyline that does not decode), get_route returns False and the
\* view answers "Could not calculate route".
C9_FailuresReportUnavailable ==
    \A r \in Routers :
        (routers[r].state = "idle" /\ routers[r].outcome \in ProviderFailures) =>
            /\ routers[r].result = "False"
            /\ routers[r].reply = ErrorResponse(CouldNotCalculate)

\* C10: a get_route call that fails (returns False or raises) leaves the cache
\* exactly as it was, and a call for a key without a live entry goes to the
\* provider.
C10_FailureLeavesCache ==
    [][\A r \in Routers :
          /\ (Ends(r) /\ routers'[r].result # "True") => cache' = cache
          /\ (Calls(r) /\ ~Live(cache[KeyOf(routers[r])], now)) =>
                /\ routers'[r].state = "fetching"
                /\ provider_calls'[KeyOf(routers[r])]
                      = provider_calls[KeyOf(routers[r])] + 1]_vars

\* after a call that failed on the second polyline, the next call for the key
\* finds no entry and is at the provider
C10_Witness ==
    \E r \in Routers :
        /\ routers[r].outcome = "bad_polyline"
        /\ routers[r].route_segments # <<>>
        /\ routers[r].state = "fetching"
        /\ cache[KeyOf(routers[r])] = NoEntry
        /\ provider_calls[KeyOf(routers[r])] = 2

(***************************************************************************)
(* Further properties of find_optimal_fuel_stops (PlannerSpec)             *)
(***************************************************************************)
\* distance from the start and price of the i-th candidate
PositionOf(i) == TimesLength(stations_along_route[i].station_fraction)
PriceOf(i) == stations_along_route[i].price_per_gallon_in_usd

\* C11: the station selected in an iteration has the lowest price among the
\* candidates strictly beyond the current position and at most 450 miles past
\* it, and among those of that price it is the first of the price-ordered
\* sequence, wherever it lies along the route.
C11_CheapestReachableFirstInOrder ==
    [][(Searching /\ Reachable(distance_covered) # {}) =>
          LET first == CHOOSE i \in Reachable(distance_covered) :
                           \A j \in Reachable(distance_covered) : i <= j
          IN  /\ Len(optimal_stops') = Len(optimal_stops) + 1
              /\ Last(optimal_stops').distance_from_start = PositionOf(first)
              /\ Last(optimal_stops').price = PriceOf(first)
              /\ \A j \in Reachable(distance_covered) :
                    Last(optimal_stops').price <= PriceOf(j)]_vars

\* two reachable stations of one price, the first of the sequence further along
\* the route than the second: the first is the one selected
C11_Witness ==
    /\ Len(stations_along_route) = 2
    /\ PriceOf(1) = PriceOf(2)
    /\ 0 < PositionOf(2)
    /\ PositionOf(2) < PositionOf(1)
    /\ PositionOf(1) <= MAX_TRAVERSIBLE_RANGE
    /\ Len(optimal_stops) = 1
    /\ optimal_stops[1].distance_from_start = PositionOf(1)

(***************************************************************************)
(* Further properties of get_route (RouteSpec)                             *)
(***************************************************************************)
RECURSIVE SumOfDistances(_)
SumOfDistances(segments) ==
    IF segments = <<>> THEN 0
    ELSE segments[1].distance + SumOfDistances(Tail(segments))

\* C12: after any sequence of get_route calls the distances of a router's
\* route_segments add up to its total_distance, and so do those of every Route
\* in the cache.
C12_SegmentsSumToTotal ==
    /\ \A r \in Routers :
          SumOfDistances(routers[r].route_segments) = routers[r].total_distance
    /\ \A k \in CacheKeys :
          cache[k] # NoEntry =>
              SumOfDistances(cache[k].value.segments) = cache[k].value.distance

InFlight(k) == {r \in Routers : routers[r].state = "fetching" /\ KeyOf(routers[r]) = k}

\* C14: get, compute and put on the cache are atomic per key: at most one
\* request for a key is at the provider at a time.
C14_OneFetchInFlightPerKey == \A k \in CacheKeys : Cardinality(InFlight(k)) <= 1

\* What the program itself does is scheduled fairly: a request that can start
\* its lookup does, and time passes.  Nothing obliges the provider to answer,
\* and get_route has no step of its own that ends the wait.
RouteFairSpec ==
    /\ RouteSpec
    /\ WF_vars(Tick)
    /\ \A r \in Routers : WF_vars(GetRouteHit(r) \/ GetRouteMiss(r))

\* C15: get_route does not block for ever: a call that waits for the provider
\* ends, also when the provider never answers.
C15_WaitEnds ==
    \A r \in Routers : (routers[r].state = "fetching") ~> (routers[r].state = "idle")

(***************************************************************************)
(* The cost of a plan (PlannerSpec)                                        *)
(***************************************************************************)
RECURSIVE SumOfCosts(_)
SumOfCosts(stops) ==
    IF stops = <<>> THEN 0 ELSE stops[1].cost + SumOfCosts(Tail(stops))

\* C16: the total cost of a returned plan is the sum of the costs of exactly
\* its stops, zero when there is none, and the cost of a stop is its
\* gallons_to_fill times the price of the station selected for it.
C16_TotalIsSumOfStopCosts ==
    Returned =>
        /\ response.total_refill_cost = SumOfCosts(response.fuel_stops)
        /\ \A i \in 1..Len(response.fuel_stops) :
              \* the station the search selects from the position before stop i
              LET stop == response.fuel_stops[i]
                  selected == NextBestStation(Positions(response.fuel_stops)[i],
                                              Positions(response.fuel_stops)[i],
                                              stations_along_route)
              IN  /\ TimesLength(selected.station_fraction) = stop.distance_from_start
                  /\ stop.cost = stop.gallons_to_fill * selected.price_per_gallon_in_usd

\* a plan of two stops at stations of different prices, both with a fill
C16_Witness ==
    /\ Returned
    /\ Len(response.fuel_stops) = 2
    /\ response.fuel_stops[1].price # response.fuel_stops[2].price
    /\ response.fuel_stops[1].cost > 0
    /\ response.fuel_stops[2].cost > 0
    /\ response.total_refill_cost = response.fuel_stops[1].cost + response.fuel_stops[2].cost

====
